---- MODULE Spec2Model ----
(***************************************************************************)
(* Forward stepwise model selection of the multiple-regression plugin      *)
(* (webviz_subsurface/plugins/_multiple_regression.py): gen_model,         *)
(* _gen_interaction_df and forward_selected.                               *)
(*                                                                         *)
(* Column names are sequences of one-character strings, so that            *)
(* "*" in name, name.split("*") and "*".join(...) are computed, not        *)
(* assumed.  Python list objects live in a small heap (lists) because      *)
(* forward_selected binds `selected` to the very list it was given.        *)
(* The numerical outcome of one trial fit (LinAlgError or an adjusted R2)  *)
(* is a property of the dataset: it is drawn the first time a design       *)
(* matrix is fitted and is the same every later time (fit).                *)
(*                                                                         *)
(* Spec is one call of the selector, SpecCalls a sequence of calls in one  *)
(* interpreter, SpecExpand one call of _gen_interaction_df on a table      *)
(* whose cells hold values, a missing value (NaN) among them.              *)
(***************************************************************************)
EXTENDS Integers, Sequences, FiniteSets, TLC

\* ------------------------------------------------------------------ bounds
MaxRows == 5
MaxScore == 2
MaxVars == 2
MaxForce == 1
MaxCalls == 2
MaxDegree == 2
TableRows == 1
MaxCell == 2
MaxExpandDegree == 3

\* --------------------------------------------------------------- the names
A == <<"A">>
B == <<"B">>
Y == <<"Y">>
Columns == <<A, B, Y>>
Response == Y

\* the name of the constant column, and a dataset that has a column of
\* that name
Intercept == <<"Intercept">>
ColumnsIntercept == <<A, Intercept, Y>>

\* a dataset with one predictor, and one with three
C == <<"C">>
Columns1 == <<A, Y>>
Columns3 == <<A, B, C, Y>>

Datasets == {Columns, ColumnsIntercept, Columns1, Columns3}

\* the finite values of R_2_adj, as ranks
Scores == (0 - 1)..MaxScore

\* the two values a division by SST = 0 gives: x/0 = inf, 0/0 = nan
Inf == MaxScore + 1
NaN == MaxScore + 2

\* < and == on floats: every comparison with nan is false
lt(x, y) == x # NaN /\ y # NaN /\ x < y
eq(x, y) == x # NaN /\ y # NaN /\ x = y

Range(s) == {s[i] : i \in 1..Len(s)}

\* "*" in name
HasStar(name) == \E i \in 1..Len(name) : name[i] = "*"

\* name.split("*")
RECURSIVE split_from(_, _, _)
split_from(s, cur, acc) ==
    IF s = <<>> THEN Append(acc, cur)
    ELSE IF Head(s) = "*" THEN split_from(Tail(s), <<>>, Append(acc, cur))
    ELSE split_from(Tail(s), Append(cur, Head(s)), acc)

split(name) == split_from(name, <<>>, <<>>)

\* "*".join(combination)
RECURSIVE join(_)
join(combination) ==
    IF combination = <<>> THEN <<>>
    ELSE IF Len(combination) = 1 THEN combination[1]
    ELSE combination[1] \o <<"*">> \o join(Tail(combination))

\* (variant: an element may be taken more than once)
RECURSIVE combinations_with_replacement(_, _)
combinations_with_replacement(s, k) ==
    IF k = 0 THEN << <<>> >>
    ELSE IF s = <<>> THEN <<>>
    ELSE LET rest == combinations_with_replacement(s, k - 1)
         IN  [i \in 1..Len(rest) |-> <<Head(s)>> \o rest[i]]
             \o combinations_with_replacement(Tail(s), k)

\* itertools.combinations(s, k), in its lexicographic order of positions
RECURSIVE combinations(_, _)
combinations(s, k) ==
    IF k = 0 THEN << <<>> >>
    ELSE IF Len(s) < k THEN <<>>
    ELSE LET rest == combinations(Tail(s), k - 1)
         IN  [i \in 1..Len(rest) |-> <<Head(s)>> \o rest[i]]
             \o combinations(Tail(s), k)

\* df.drop(columns=response).columns
drop(cols, response) == SelectSeq(cols, LAMBDA c : c # response)

\* name_combinations of _gen_interaction_df
RECURSIVE name_combinations(_, _, _)
name_combinations(cols, response, degree) ==
    IF degree < 1 THEN <<>>
    ELSE LET combos == combinations(drop(cols, response), degree)
         IN  name_combinations(cols, response, degree - 1)
             \o [i \in 1..Len(combos) |-> join(combos[i])]

\* newdf[name] = ... : an existing column is overwritten in place, a new one
\* is appended
RECURSIVE assign_columns(_, _)
assign_columns(cols, names) ==
    IF names = <<>> THEN cols
    ELSE assign_columns(IF Head(names) \in Range(cols) THEN cols
                        ELSE Append(cols, Head(names)),
                        Tail(names))

\* the columns of _gen_interaction_df(df, response, degree)
gen_interaction_df(cols, response, degree) ==
    assign_columns(cols, name_combinations(cols, response, degree))

\* data.filter(items=...): the items that are columns, in the order of items
filter(cols, items) == SelectSeq(items, LAMBDA c : c \in Range(cols))

\* set(candidate.split("*")).difference(set(selected)), listed in split order
\* (the order of that list only permutes the columns of X)
RECURSIVE unselected_bases(_, _)
unselected_bases(parts, sel) ==
    IF parts = <<>> THEN <<>>
    ELSE LET rest == unselected_bases(Tail(parts), sel)
         IN  IF Head(parts) \in Range(sel) \/ Head(parts) \in Range(rest)
             THEN rest ELSE <<Head(parts)>> \o rest

\* current_model of one candidate
current_model(sel, candidate) ==
    IF HasStar(candidate)
    THEN sel \o <<candidate>> \o unselected_bases(split(candidate), sel)
    ELSE sel \o <<candidate>>

\* (variant: the trial model is built in selected itself)
trial_selected_in_place(sel, candidate) == current_model(sel, candidate)

\* selected after a trial model was built: selected.copy() + [...] makes a
\* new list and leaves selected alone
trial_selected(sel, candidate) == sel

\* (variant: p is taken after the intercept column is appended)
shape_1_with_intercept(X) == Len(X) + 1

\* p = X.shape[1], taken before np.append(X, onevec, axis=1)
shape_1(X) == Len(X)

\* (variant: the floor one row too late)
dof_floor_late(n, p) == n - p - 1 < 0

\* if n - p - 1 < 1
dof_floor(n, p) == n - p - 1 < 1

\* scores_with_candidates.sort(key=lambda x: x[0]): list.sort compares the
\* keys with < only.  A list this short is one run (count_run, reversed when
\* it descends) and a binary insertion of the elements after it.
RECURSIVE run_end(_, _, _)
run_end(s, i, descending) ==
    IF i = Len(s) THEN i
    ELSE IF lt(s[i + 1][1], s[i][1]) = descending
         THEN run_end(s, i + 1, descending)
         ELSE i

RECURSIVE reversed(_)
reversed(s) == IF s = <<>> THEN <<>> ELSE Append(reversed(Tail(s)), Head(s))

\* where the pivot goes among a[l..r-1]
RECURSIVE bisect(_, _, _, _)
bisect(a, pivot, l, r) ==
    IF l >= r THEN l
    ELSE LET p == l + ((r - l) \div 2)
         IN  IF lt(pivot[1], a[p][1]) THEN bisect(a, pivot, l, p)
             ELSE bisect(a, pivot, p + 1, r)

RECURSIVE binarysort(_, _)
binarysort(a, start) ==
    IF start > Len(a) THEN a
    ELSE LET pivot == a[start]
             l == bisect(a, pivot, 1, start)
         IN  binarysort(SubSeq(a, 1, l - 1) \o <<pivot>>
                          \o SubSeq(a, l, start - 1)
                          \o SubSeq(a, start + 1, Len(a)),
                        start + 1)

sort_by_score(s) ==
    IF Len(s) < 2 THEN s
    ELSE LET descending == lt(s[2][1], s[1][1])
             e == run_end(s, 2, descending)
             run == SubSeq(s, 1, e)
         IN  binarysort((IF descending THEN reversed(run) ELSE run)
                          \o SubSeq(s, e + 1, Len(s)),
                        e + 1)

\* (variant: a tie counts as an improvement)
improves_or_ties(current, best) == lt(current, best) \/ eq(current, best)

\* if current_score < best_new_score
improves(current, best) == lt(current, best)

\* (variant: the loop test does not look at remaining)
loop_continues_without_remaining(rem, current, best, sel, maxvars) ==
    /\ eq(current, best)
    /\ Len(sel) < maxvars

\* while ... current_score == best_new_score and len(selected) < maxvars
loop_continues(rem, current, best, sel, maxvars) ==
    /\ rem # {}
    /\ eq(current, best)
    /\ Len(sel) < maxvars

\* the appends of a commit: the bases not yet selected, then the candidate
RECURSIVE append_bases(_, _)
append_bases(sel, parts) ==
    IF parts = <<>> THEN sel
    ELSE append_bases(IF Head(parts) \in Range(sel) THEN sel
                      ELSE Append(sel, Head(parts)),
                      Tail(parts))

\* (variant: the committed terms are put in front)
commit_selected_front(sel, best_candidate) ==
    IF HasStar(best_candidate)
    THEN <<best_candidate>> \o append_bases(sel, split(best_candidate))
    ELSE <<best_candidate>> \o sel

\* (variant: an interaction is committed without its bases)
commit_selected_without_bases(sel, best_candidate) == Append(sel, best_candidate)

\* (variant: the candidate is appended before its bases)
commit_selected_candidate_first(sel, best_candidate) ==
    IF HasStar(best_candidate)
    THEN append_bases(Append(sel, best_candidate), split(best_candidate))
    ELSE Append(sel, best_candidate)

commit_selected(sel, best_candidate) ==
    IF HasStar(best_candidate)
    THEN Append(append_bases(sel, split(best_candidate)), best_candidate)
    ELSE Append(sel, best_candidate)

\* (variant: the response is left in the design frame)
model_terms_with_response(cols, sel) == filter(cols, sel \o <<Response>>)

\* model_df = data.filter(items=selected)
model_terms(cols, sel) == filter(cols, sel)

\* model_df["Intercept"] = onevec; the index of model.params and
\* model.pvalues is the column list of model_df
params_index(terms) == assign_columns(terms, <<Intercept>>)

\* (variant: the bases of an interaction stay candidates)
commit_remaining_candidate_only(rem, best_candidate) == rem \ {best_candidate}

\* the removals of a commit
commit_remaining(rem, best_candidate) ==
    IF HasStar(best_candidate)
    THEN (rem \ Range(split(best_candidate))) \ {best_candidate}
    ELSE rem \ {best_candidate}

\* ------------------------------------------------- tables with cell values
\* a cell that holds no value (NaN)
Missing == 0 - 1

Cells == (1..MaxCell) \cup {Missing}

\* DataFrame.product(axis=1) on one row: skipna is True by default, so a
\* missing value counts as 1, and so does a row without columns
RECURSIVE product(_)
product(values) ==
    IF values = <<>> THEN 1
    ELSE (IF Head(values) = Missing THEN 1 ELSE Head(values))
            * product(Tail(values))

\* newdf.filter(items=...).product(axis=1)
filter_product(frame, items) ==
    LET cs == filter(frame.cols, items)
    IN  [r \in 1..TableRows |->
            product([i \in 1..Len(cs) |-> frame.val[cs[i]][r]])]

\* newdf[name] = column
setitem(frame, name, column) ==
    [cols |-> assign_columns(frame.cols, <<name>>),
     val  |-> [c \in Range(frame.cols) \cup {name} |->
                  IF c = name THEN column ELSE frame.val[c]]]

\* the body of `for name in name_combinations`
assign_product(frame, name) ==
    IF split(name) # <<>>
    THEN setitem(frame, name, filter_product(frame, split(name)))
    ELSE frame

\* the frame after the whole loop
RECURSIVE assign_all(_, _)
assign_all(frame, names) ==
    IF names = <<>> THEN frame
    ELSE assign_all(assign_product(frame, Head(names)), Tail(names))

\* (variant: newdf is bound to the caller's object)
df_alias(ref) == ref

\* newdf = df.copy(): a new object
df_copy(ref) == "copy"

EmptyFrame == [cols |-> <<>>, val |-> <<>>]

\* the column lists and responses of the tables: plain names, a response
\* whose name holds "*", a predictor whose name holds "*"
ExpanderInputs ==
    {[cols |-> <<A, B, Y>>, response |-> Y],
     [cols |-> <<A, B, join(<<A, B>>)>>, response |-> join(<<A, B>>)],
     [cols |-> <<A, join(<<Y, A>>), Y>>, response |-> Y]}

Tables ==
    UNION {{[cols |-> i.cols, response |-> i.response, val |-> v] :
                v \in [Range(i.cols) -> [1..TableRows -> Cells]]} :
            i \in ExpanderInputs}

\* ------------------------------------------------------------------- state
VARIABLES
    data,          \* the caller's dataset: its columns, its row count n and
                   \* whether its response is constant (SST = 0)
    lists,         \* heap of list objects: the two default-argument lists
                   \* and the list the caller passes
    order,         \* the order in which this interpreter iterates a set of
                   \* names (fixed by its string hash seed)
    pc,            \* position of the current call
    via,           \* which function the caller called
    omitted,       \* force_in was left to its default
    degree,        \* interaction_degree
    maxvars,
    df,            \* columns of the frame forward_selected works on
    selected,      \* the list object `selected` is bound to
    remaining,
    current_score,
    best_new_score,
    scores_with_candidates,
    todo,          \* candidates of this round not yet visited
    fit,           \* outcome of fitting a design matrix, by its column set
    result,        \* what the call returned or raised
    entry_force_in,     \* history: the value of force_in when the call began
    committed_scores,   \* history: values assigned to current_score by commits
    last_round,         \* history: how the latest round of this call ended
    prev,               \* history: the previous call's inputs and outcome
    calls,              \* calls the caller has completed
    session,            \* calls the caller makes in all
    request,            \* history: the arguments of the call, as written
    shown,              \* what the submit callback gave for the latest click
    \* a call of _gen_interaction_df on a table with cell values
    tables,             \* heap of DataFrame objects: the caller's, the copy
    expand_response,    \* response
    expand_degree,      \* degree
    expand_pc,          \* position of the call
    newdf,              \* the object `newdf` is bound to
    names_todo,         \* names of name_combinations not yet assigned
    expanded,           \* the frame the call returned
    table_entry         \* history: the caller's frame when the call began

selector_vars ==
    <<data, lists, order, pc, via, omitted, degree, maxvars, df, selected,
      remaining, current_score, best_new_score, scores_with_candidates,
      todo, fit, result, entry_force_in, committed_scores, last_round,
      prev, calls, session, request, shown>>

expander_vars ==
    <<tables, expand_response, expand_degree, expand_pc, newdf, names_todo,
      expanded, table_entry>>

vars == <<selector_vars, expander_vars>>

ListIds == {"gen_model.force_in", "forward_selected.force_in", "caller"}

NoResult == [kind |-> "none", exit |-> "none", terms |-> <<>>, keys |-> <<>>]

\* sequences without repetition over a set of names, up to a length
RECURSIVE ListsOver(_, _)
ListsOver(names, len) ==
    IF len = 0 THEN {<<>>}
    ELSE LET shorter == ListsOver(names, len - 1)
         IN  shorter \cup {Append(s, x) : s \in shorter, x \in names}

ForceInChoices(cols) ==
    {s \in ListsOver(Range(cols) \ {Response}, MaxForce) :
        Cardinality(Range(s)) = Len(s)}

\* the interaction degrees a dataset is searched with: the dataset of three
\* predictors is searched without interactions
Degrees(cols) == IF Len(cols) > 3 THEN {0} ELSE 0..MaxDegree

\* every name a frame of a dataset can hold, the response aside
NamesOf(cols) ==
    UNION {Range(gen_interaction_df(cols, Response, d)) : d \in Degrees(cols)}
        \ {Response}

AllNames == UNION {NamesOf(cols) : cols \in Datasets}

\* the iteration orders a hash seed can give
Orders(cols) ==
    LET names == NamesOf(cols)
    IN  {s \in ListsOver(names, Cardinality(names)) : Range(s) = names}

\* the same, and the lists a caller can pass as force_in, by dataset
OrdersOf == [cols \in Datasets |-> Orders(cols)]

ForceLists == [cols \in Datasets |-> ListsOver(NamesOf(cols), MaxForce)]

NoRequest == [via |-> "none", omitted |-> TRUE, force_in |-> <<>>,
              maxvars |-> 0, degree |-> 0]

EmptyHeap == [id \in ListIds |-> <<>>]

Sel == lists[selected]

Start ==
    /\ data \in {[cols |-> Columns, n |-> n, sst0 |-> FALSE, nan |-> {}] :
                    n \in 2..MaxRows}
               \cup {[cols |-> Columns1, n |-> n, sst0 |-> FALSE, nan |-> {}] :
                        n \in 2..MaxRows}
               \cup {[cols |-> Columns, n |-> MaxRows, sst0 |-> TRUE,
                        nan |-> {}],
                     [cols |-> ColumnsIntercept, n |-> MaxRows, sst0 |-> FALSE,
                        nan |-> {}],
                     [cols |-> Columns3, n |-> MaxRows, sst0 |-> FALSE,
                        nan |-> {A}]}
    /\ lists = EmptyHeap
    /\ order \in OrdersOf[data.cols]
    /\ pc = "idle"
    /\ via = "gen_model"
    /\ omitted = TRUE
    /\ degree = 0
    /\ maxvars = 0
    /\ df = Columns
    /\ selected = "caller"
    /\ remaining = {}
    /\ current_score = 0
    /\ best_new_score = 0
    /\ scores_with_candidates = <<>>
    /\ todo = {}
    /\ fit = <<>>
    /\ result = NoResult
    /\ entry_force_in = <<>>
    /\ committed_scores = <<>>
    /\ last_round = "none"
    /\ prev = [valid |-> FALSE, args |-> <<>>, force_in |-> <<>>,
               result |-> NoResult]
    /\ calls = 0
    /\ request = NoRequest
    /\ shown = "none"

\* no table is being expanded
ExpanderIdle ==
    /\ tables = [id \in {"df", "copy"} |-> EmptyFrame]
    /\ expand_response = Response
    /\ expand_degree = 0
    /\ expand_pc = "idle"
    /\ newdf = "none"
    /\ names_todo = <<>>
    /\ expanded = EmptyFrame
    /\ table_entry = EmptyFrame

\* one call on a fresh interpreter
Init ==
    /\ Start
    /\ session = 1
    /\ ExpanderIdle

\* a sequence of calls in one interpreter, on the two-predictor dataset
InitCalls ==
    /\ Start
    /\ data.cols = Columns
    /\ session = MaxCalls
    /\ ExpanderIdle

\* a caller of _gen_interaction_df holds a table
InitExpand ==
    /\ Start
    /\ data = [cols |-> Columns, n |-> 2, sst0 |-> FALSE, nan |-> {}]
    /\ order = CHOOSE o \in Orders(Columns) : TRUE
    /\ session = 0
    /\ \E t \in Tables :
          /\ tables = [id \in {"df", "copy"} |->
                          IF id = "df" THEN [cols |-> t.cols, val |-> t.val]
                          ELSE EmptyFrame]
          /\ table_entry = [cols |-> t.cols, val |-> t.val]
          /\ expand_response = t.response
    /\ expand_degree = 0
    /\ expand_pc = "idle"
    /\ newdf = "none"
    /\ names_todo = <<>>
    /\ expanded = EmptyFrame

\* which list object the parameter force_in is bound to
force_in_object(v, om) ==
    IF om THEN (IF v = "gen_model" THEN "gen_model.force_in"
                ELSE "forward_selected.force_in")
    ELSE "caller"

\* selected = force_in
bind_selected(force_in) == force_in

\* (variant: the expansion is always of the highest degree)
gen_model_df_full_degree(cols, response, interaction_degree) ==
    IF interaction_degree # 0
    THEN gen_interaction_df(cols, response, MaxDegree)
    ELSE cols

\* gen_model: the frame handed to forward_selected
gen_model_df(cols, response, interaction_degree) ==
    IF interaction_degree # 0
    THEN gen_interaction_df(cols, response, interaction_degree)
    ELSE cols

\* remaining = set(data.columns).difference(set(force_in+[response]))
initial_remaining(cols, force_in, response) ==
    Range(cols) \ (Range(force_in) \cup {response})

\* the arguments as the caller wrote them
Args(v, om, fi, mv, deg) ==
    [via |-> v, omitted |-> om, force_in |-> fi, maxvars |-> mv,
     degree |-> deg]

\* A call of gen_model or of forward_selected, up to the first loop test.
\* One click makes the plugin's callbacks each call gen_model with the same
\* arguments: the calls of a session repeat the first one's.
Call(v, om, fi, mv, deg) ==
    /\ pc = "idle"
    /\ calls < session
    /\ prev.valid => prev.args = Args(v, om, fi, mv, deg)
    /\ LET cols == IF v = "gen_model"
                   THEN gen_model_df(data.cols, Response, deg)
                   ELSE data.cols
           obj  == force_in_object(v, om)
           heap == IF om THEN lists ELSE [lists EXCEPT !["caller"] = fi]
       IN  /\ v = "forward_selected" => deg = 0
           /\ deg \in Degrees(data.cols)
           /\ ~om => fi \in ForceInChoices(cols)
           /\ om => fi = <<>>
           /\ lists' = heap
           /\ df' = cols
           /\ selected' = bind_selected(obj)
           /\ remaining' = initial_remaining(cols, heap[obj], Response)
           /\ entry_force_in' = heap[obj]
    /\ via' = v
    /\ omitted' = om
    /\ degree' = deg
    /\ maxvars' = mv
    /\ current_score' = 0
    /\ best_new_score' = 0
    /\ scores_with_candidates' = <<>>
    /\ todo' = {}
    /\ result' = NoResult
    /\ committed_scores' = <<>>
    /\ last_round' = "none"
    /\ pc' = "while"
    /\ request' = Args(v, om, fi, mv, deg)
    /\ UNCHANGED <<data, order, fit, prev, calls, session, shown, expander_vars>>

\* The loop test: a new round starts, or the loop is left for the final refit.
EnterRound ==
    /\ pc = "while"
    /\ loop_continues(remaining, current_score, best_new_score, Sel, maxvars)
    /\ scores_with_candidates' = <<>>
    /\ todo' = remaining
    /\ pc' = "for"
    /\ UNCHANGED <<data, lists, order, via, omitted, degree, maxvars, df, selected,
                   remaining, current_score, best_new_score, fit, result,
                   entry_force_in, committed_scores, last_round, prev, calls, session, request, shown, expander_vars>>

ExitLoop ==
    /\ pc = "while"
    /\ ~loop_continues(remaining, current_score, best_new_score, Sel, maxvars)
    /\ pc' = "refit"
    /\ UNCHANGED <<data, lists, order, via, omitted, degree, maxvars, df, selected,
                   remaining, current_score, best_new_score,
                   scores_with_candidates, todo, fit, result, entry_force_in,
                   committed_scores, last_round, prev, calls, session, request, shown, expander_vars>>

\* X of one candidate, as the list of its columns
design(c) == filter(df, current_model(Sel, c))

\* for candidate in remaining: the unvisited candidate that comes first in
\* this interpreter's iteration order
next_candidate(unvisited) ==
    order[CHOOSE i \in 1..Len(order) :
            /\ order[i] \in unvisited
            /\ \A j \in 1..(i - 1) : order[j] \notin unvisited]

\* the candidate the for loop is at
candidate == next_candidate(todo)

\* n - p - 1 < 1: the whole call returns the fit on `selected`.
DofFloorReturn ==
    /\ pc = "for"
    /\ todo # {}
    /\ dof_floor(data.n, shape_1(design(candidate)))
    /\ result' = [kind |-> "model", exit |-> "floor",
                  terms |-> model_terms(df, Sel),
                  keys |-> params_index(model_terms(df, Sel))]
    /\ lists' = [lists EXCEPT ![selected] = trial_selected(Sel, candidate)]
    /\ pc' = "done"
    /\ UNCHANGED <<data, order, via, omitted, degree, maxvars, df, selected,
                   remaining, current_score, best_new_score,
                   scores_with_candidates, todo, fit, entry_force_in,
                   committed_scores, last_round, prev, calls, session, request, shown, expander_vars>>

\* the columns of the selector's frame that hold a missing value (NaN):
\* the dataset's, unless the expander rewrote the predictors as products
\* (which take a missing value as 1)
nan_columns == IF degree # 0 THEN {} ELSE data.nan

\* R_2_adj = 1-(1 - (SS_RES / SST))*((n-1)/(n-p-1)), with n-p-1 >= 1 here:
\* nan when X holds a nan; else finite when SST > 0; with SST = 0 it is
\* inf (SS_RES > 0) or nan (SS_RES = 0)
R_2_adj(sst0, nan_in_X) ==
    IF nan_in_X THEN {NaN} ELSE IF sst0 THEN {Inf, NaN} ELSE Scores

\* the outcomes the dataset allows for one design matrix
Outcomes(key) ==
    IF key \in DOMAIN fit THEN {fit[key]}
    ELSE {[singular |-> TRUE, r |-> 0]}
         \cup {[singular |-> FALSE, r |-> r] :
                  r \in R_2_adj(data.sst0, key \cap nan_columns # {})}

Learn(key, o) ==
    fit' = [k \in (DOMAIN fit) \cup {key} |-> IF k = key THEN o ELSE fit[k]]

\* la.inv raises LinAlgError: continue
SingularSkip ==
    /\ pc = "for"
    /\ todo # {}
    /\ ~dof_floor(data.n, shape_1(design(candidate)))
    /\ \E o \in Outcomes(Range(design(candidate))) :
          /\ o.singular
          /\ Learn(Range(design(candidate)), o)
    /\ todo' = todo \ {candidate}
    /\ lists' = [lists EXCEPT ![selected] = trial_selected(Sel, candidate)]
    /\ UNCHANGED <<data, order, pc, via, omitted, degree, maxvars, df,
                   selected, remaining, current_score, best_new_score,
                   scores_with_candidates, result, entry_force_in,
                   committed_scores, last_round, prev, calls, session, request, shown, expander_vars>>

\* scores_with_candidates.append((R_2_adj, candidate))
ScoreCandidate ==
    /\ pc = "for"
    /\ todo # {}
    /\ ~dof_floor(data.n, shape_1(design(candidate)))
    /\ \E o \in Outcomes(Range(design(candidate))) :
          /\ ~o.singular
          /\ Learn(Range(design(candidate)), o)
          /\ scores_with_candidates' =
                Append(scores_with_candidates, <<o.r, candidate>>)
    /\ todo' = todo \ {candidate}
    /\ lists' = [lists EXCEPT ![selected] = trial_selected(Sel, candidate)]
    /\ UNCHANGED <<data, order, pc, via, omitted, degree, maxvars, df,
                   selected, remaining, current_score, best_new_score,
                   result, entry_force_in, committed_scores, last_round,
                   prev, calls, session, request, shown, expander_vars>>

\* pop() from an empty list
PopRaises ==
    /\ pc = "for"
    /\ todo = {}
    /\ scores_with_candidates = <<>>
    /\ result' = [kind |-> "IndexError", exit |-> "raise", terms |-> <<>>,
                  keys |-> <<>>]
    /\ pc' = "raised"
    /\ UNCHANGED <<data, lists, order, via, omitted, degree, maxvars, df, selected,
                   remaining, current_score, best_new_score,
                   scores_with_candidates, todo, fit, entry_force_in,
                   committed_scores, last_round, prev, calls, session, request, shown, expander_vars>>

\* sort, pop, and the commit of an improving round
EndRound ==
    /\ pc = "for"
    /\ todo = {}
    /\ scores_with_candidates # <<>>
    /\ LET sorted == sort_by_score(scores_with_candidates)
           best   == sorted[Len(sorted)]
       IN  /\ scores_with_candidates' = SubSeq(sorted, 1, Len(sorted) - 1)
           /\ best_new_score' = best[1]
           /\ IF improves(current_score, best[1])
              THEN /\ lists' = [lists EXCEPT
                                  ![selected] = commit_selected(Sel, best[2])]
                   /\ remaining' = commit_remaining(remaining, best[2])
                   /\ current_score' = best[1]
                   /\ committed_scores' = Append(committed_scores, best[1])
                   /\ last_round' = "commit"
              ELSE /\ UNCHANGED <<lists, remaining, current_score,
                                  committed_scores>>
                   /\ last_round' = "nocommit"
    /\ pc' = "while"
    /\ UNCHANGED <<data, order, via, omitted, degree, maxvars, df, selected, todo,
                   fit, result, entry_force_in, prev, calls, session, request, shown, expander_vars>>

\* model_df = data.filter(items=selected); fit; return
FinalRefit ==
    /\ pc = "refit"
    /\ result' = [kind |-> "model", exit |-> "refit",
                  terms |-> model_terms(df, Sel),
                  keys |-> params_index(model_terms(df, Sel))]
    /\ pc' = "done"
    /\ UNCHANGED <<data, lists, order, via, omitted, degree, maxvars, df, selected,
                   remaining, current_score, best_new_score,
                   scores_with_candidates, todo, fit, entry_force_in,
                   committed_scores, last_round, prev, calls, session, request, shown, expander_vars>>

\* the exceptions the handler of the submit callback catches:
\* except UserWarning
caught(kind) == kind = "UserWarning"

\* what the table and plot derivation raises on a fitted model:
\* p_sorted.index[-1] with no term but the intercept
derivation_raises(keys) ==
    IF SelectSeq(keys, LAMBDA k : k # Intercept) = <<>> THEN "IndexError"
    ELSE "none"

\* the submit callback around gen_model: the table and figures, the
\* placeholder of the handler, or the exception it lets through
_update_visualizations(res) ==
    LET raised == IF res.kind = "model" THEN derivation_raises(res.keys)
                  ELSE res.kind
    IN  IF raised = "none" THEN "table"
        ELSE IF caught(raised) THEN "placeholder"
        ELSE "exception"

\* the caller gets the model or the exception; the frame of the call is gone
\* (its locals are shown as they were at construction), the list objects stay
Return ==
    /\ pc \in {"done", "raised"}
    /\ prev' = [valid |-> TRUE,
                args |-> Args(via, omitted,
                              IF omitted THEN <<>> ELSE entry_force_in,
                              maxvars, degree),
                force_in |-> entry_force_in,
                result |-> result]
    /\ calls' = calls + 1
    /\ pc' = "idle"
    /\ via' = "gen_model"
    /\ omitted' = TRUE
    /\ degree' = 0
    /\ maxvars' = 0
    /\ df' = Columns
    /\ selected' = "caller"
    /\ remaining' = {}
    /\ current_score' = 0
    /\ best_new_score' = 0
    /\ scores_with_candidates' = <<>>
    /\ todo' = {}
    /\ result' = NoResult
    /\ entry_force_in' = <<>>
    /\ committed_scores' = <<>>
    /\ last_round' = "none"
    /\ request' = NoRequest
    /\ shown' = IF via = "gen_model" THEN _update_visualizations(result)
                ELSE shown
    /\ UNCHANGED <<data, lists, order, fit, session, expander_vars>>

\* The serving process is restarted (or another worker takes the next
\* request): the default-argument lists are new and so is the hash seed.
Restart ==
    /\ pc = "idle"
    /\ calls < session
    /\ order' \in OrdersOf[data.cols]
    /\ lists' = EmptyHeap
    /\ order' # order \/ lists' # lists
    /\ UNCHANGED <<data, pc, via, omitted, degree, maxvars, df, selected,
                   remaining, current_score, best_new_score,
                   scores_with_candidates, todo, fit, result, entry_force_in,
                   committed_scores, last_round, prev, calls, session, request, shown, expander_vars>>

Next ==
    \/ pc = "idle" /\ calls < session /\ \E v \in {"gen_model", "forward_selected"}, om \in BOOLEAN,
          fi \in ForceLists[data.cols],
          mv \in 0..MaxVars, deg \in 0..MaxDegree : Call(v, om, fi, mv, deg)
    \/ EnterRound
    \/ ExitLoop
    \/ DofFloorReturn
    \/ SingularSkip
    \/ ScoreCandidate
    \/ PopRaises
    \/ EndRound
    \/ FinalRefit
    \/ Return
    \/ Restart

Spec == Init /\ [][Next]_vars

\* _gen_interaction_df(df, response, degree), up to the second loop
Expand(d) ==
    /\ expand_pc = "idle"
    /\ expand_degree' = d
    /\ newdf' = df_copy("df")
    /\ tables' = [tables EXCEPT ![newdf'] = tables["df"]]
    /\ names_todo' = name_combinations(tables["df"].cols, expand_response, d)
    /\ expand_pc' = "assign"
    /\ UNCHANGED <<selector_vars, expand_response, expanded, table_entry>>

\* newdf[name] = newdf.filter(items=name.split("*")).product(axis=1)
AssignProduct ==
    /\ expand_pc = "assign"
    /\ names_todo # <<>>
    /\ tables' = [tables EXCEPT
                     ![newdf] = assign_product(tables[newdf], Head(names_todo))]
    /\ names_todo' = Tail(names_todo)
    /\ UNCHANGED <<selector_vars, expand_response, expand_degree, expand_pc,
                   newdf, expanded, table_entry>>

\* return newdf
ExpandReturn ==
    /\ expand_pc = "assign"
    /\ names_todo = <<>>
    /\ expanded' = tables[newdf]
    /\ expand_pc' = "done"
    /\ UNCHANGED <<selector_vars, tables, expand_response, expand_degree,
                   newdf, names_todo, table_entry>>

NextExpand ==
    \/ \E d \in 0..MaxExpandDegree : Expand(d)
    \/ AssignProduct
    \/ ExpandReturn

SpecExpand == InitExpand /\ [][NextExpand]_vars

SpecCalls == InitCalls /\ [][Next]_vars

\* ------------------------------------------------------------- properties
IsPrefix(p, s) == Len(p) <= Len(s) /\ SubSeq(s, 1, Len(p)) = p

Returned == pc = "done"

\* the contract's precondition on the arguments
ValidArgs == maxvars >= Len(entry_force_in)

\* C1: whenever max_terms >= len(force_in), the returned model has at most
\* max_terms selected terms, also when the last commit was an interaction
\* term that brought its base terms with it.
C1_CardinalityBound ==
    Returned /\ ValidArgs => Len(result.terms) <= maxvars

C3_InteractionClosure ==
    Returned /\ ValidArgs =>
        \A t \in Range(result.terms) :
            HasStar(t) => Range(split(t)) \subseteq Range(result.terms)

\* C4: a round whose best score does not strictly exceed current_score ends
\* the loop: no further round is entered after it, and the call goes on to
\* the final refit.
C4_NonImprovingRoundEndsLoop ==
    ValidArgs /\ last_round = "nocommit" => pc \in {"while", "refit", "done"}
                               /\ (pc = "while" => ~ENABLED EnterRound)

StrictlyIncreasing(s) == \A i, j \in 1..Len(s) : i < j => s[i] < s[j]

\* C5: the values assigned to current_score by commits are strictly
\* increasing, and a step that adds a term to selected is the commit of a
\* round whose best score is above the current_score of before the round.
C5_MonotonicImprovement ==
    /\ [](StrictlyIncreasing(<<0>> \o committed_scores))
    /\ [][pc = "for" /\ lists'[selected'] # Sel
            => /\ current_score < best_new_score'
               /\ current_score' = best_new_score'
               /\ committed_scores' = Append(committed_scores, current_score')]_vars

C5_Witness == Len(committed_scores) = 2

\* some candidate of the round under way has too few degrees of freedom
FloorInRound ==
    \E c \in remaining : data.n - Len(design(c)) - 1 < 1

\* C6: a round in which some candidate's trial model has n - p - 1 < 1 never
\* completes, in whatever order its candidates are visited: nothing is
\* committed in it, and the call returns the fit on the terms that were
\* selected before the round.
C6_FloorIsHardExit ==
    /\ [](pc = "for" /\ FloorInRound =>
            \E c \in todo : data.n - Len(design(c)) - 1 < 1)
    /\ [](result.exit = "floor" =>
            Returned /\ result.terms = filter(df, Sel))
    /\ [][pc = "for" /\ FloorInRound =>
            /\ lists' = lists
            /\ remaining' = remaining
            /\ current_score' = current_score
            /\ pc' \in {"for", "done"}
            /\ pc' = "done" => result'.exit = "floor"]_vars

C6_Witness ==
    /\ Returned
    /\ result.exit = "floor"
    /\ scores_with_candidates # <<>>
    /\ \E c \in remaining : data.n - Len(design(c)) - 1 >= 1

\* C7: a candidate with a singular matrix gets no score and never aborts the
\* search: however many of a round's candidates are singular, the call raises
\* no error.
C7_SingularNeverAborts ==
    /\ ValidArgs => pc # "raised"
    /\ \A i \in 1..Len(scores_with_candidates) :
          LET key == Range(design(scores_with_candidates[i][2]))
          IN  pc = "for" /\ key \in DOMAIN fit => ~fit[key].singular

\* C8: a call whose inputs (dataset, response, force_in, max_terms, degree)
\* equal those of the previous call returns the same selected terms in the
\* same order.
C8_Determinism ==
    (/\ pc \in {"done", "raised"} /\ ValidArgs /\ prev.valid
     /\ prev.args.via = via /\ prev.args.degree = degree
     /\ prev.args.maxvars = maxvars /\ prev.force_in = entry_force_in)
        => /\ prev.result.kind = result.kind
           /\ prev.result.terms = result.terms

\* C9: when a call ends, the list the caller passed as force_in holds what it
\* held when the call began, and the caller's dataset has its columns.
C9_CallerDataUntouched ==
    pc \in {"done", "raised"} /\ ValidArgs =>
        /\ ~omitted => lists["caller"] = entry_force_in
        /\ data.cols \in Datasets

\* C10: a call that leaves force_in to its default begins with an empty
\* selected list, whatever earlier calls did.
C10_NoSharedState ==
    pc # "idle" /\ omitted => entry_force_in = <<>>

\* C11: a call with max_terms < len(force_in) is rejected at once with a
\* configuration error: it runs no search round and returns no fitted model.
C11_InvalidArgsRejected ==
    pc # "idle" /\ ~ValidArgs => pc # "for" /\ result.kind # "model"

\* C12: when the response has zero variance (SST = 0) the selector fails
\* fast: it commits no term on an adjusted R2 that is inf or nan and it
\* returns no fitted model.
C12_ZeroVarianceFailsFast ==
    pc # "idle" /\ ValidArgs /\ data.sst0 =>
        /\ committed_scores = <<>>
        /\ result.kind # "model"

\* the degrees-of-freedom floor ended the call before any term was added
FloorBeforeAnyTerm == result.exit = "floor" /\ committed_scores = <<>>

\* C13 (as stated): when the degrees-of-freedom floor is reached before the
\* search has added any term, the call gives the caller an error, no model.
C13_FirstRoundFloorRaises ==
    FloorBeforeAnyTerm => result.kind # "model"

\* C13 (amended): when the degrees-of-freedom floor is reached before the
\* search has added any term, the call raises nothing: it returns the model
\* fitted on exactly the terms force_in held when the call began.
C13_FirstRoundFloorReturnsForced ==
    FloorBeforeAnyTerm =>
        /\ Returned
        /\ result.kind = "model"
        /\ result.terms = entry_force_in

C13_Witness ==
    /\ Returned
    /\ FloorBeforeAnyTerm
    /\ entry_force_in # <<>>

\* the columns an expansion of degree d of a dataset has: the dataset's, and
\* one per set of 2..d predictors
ExpansionOf(cols, d) ==
    Range(cols) \cup
        {join(c) : c \in {x \in ListsOver(Range(drop(cols, Response)), d) :
                            /\ Len(x) >= 2
                            /\ filter(x, drop(cols, Response)) = x}}

\* C19: gen_model with degree 0 runs the selector on the dataset's own
\* columns (no interaction term can be selected); with degree d > 0 it runs
\* the selector on the expansion of exactly degree d; response, force_in and
\* max_vars reach the selector as the caller gave them.
C19_GenModelDelegates ==
    /\ [](pc # "idle" /\ via = "gen_model" =>
            /\ request.degree = 0 =>
                  /\ df = data.cols
                  /\ \A t \in Range(Sel) \cup remaining : ~HasStar(t)
            /\ maxvars = request.maxvars
            /\ ~request.omitted =>
                  /\ selected = "caller"
                  /\ entry_force_in = request.force_in
            /\ Response \notin Range(Sel) \cup remaining)
    /\ [][pc = "idle" /\ pc' # "idle" /\ via' = "gen_model"
                /\ request'.degree > 0 =>
            /\ df' = gen_interaction_df(data.cols, Response, request'.degree)
            /\ Range(df') = ExpansionOf(data.cols, request'.degree)]_vars
    /\ [][pc # "idle" /\ pc' # "idle" => df' = df /\ request' = request]_vars

C19_Witness ==
    /\ Returned
    /\ via = "gen_model"
    /\ request.degree = 1
    /\ request.force_in # <<>>
    /\ Len(result.terms) = 2

\* C20: the returned model's coefficient and p-value mappings are keyed by
\* the selected names, in selection order, and one intercept entry more: no
\* selected name is missing and no other key is present.
C20_KeysAreSelectedPlusIntercept ==
    Returned /\ ValidArgs /\ result.kind = "model" =>
        \E i \in 1..Len(result.keys) :
            /\ result.keys[i] = Intercept
            /\ SubSeq(result.keys, 1, i - 1)
                   \o SubSeq(result.keys, i + 1, Len(result.keys)) = Sel

ExpandDone == expand_pc = "done"

\* the predictor columns of the table being expanded
Predictors == drop(table_entry.cols, expand_response)

\* the combinations of 1..d distinct predictors, each in column order
PredictorSets(d) ==
    {x \in ListsOver(Range(Predictors), d) :
        Len(x) >= 1 /\ filter(x, Predictors) = x}

\* the product of numbers, missing when one of them is
RECURSIVE times(_)
times(values) ==
    IF values = <<>> THEN 1
    ELSE IF Head(values) = Missing \/ times(Tail(values)) = Missing
         THEN Missing
         ELSE Head(values) * times(Tail(values))

\* C14: for degree d >= 1 the columns of the expanded table are the
\* original columns and one column more per combination of 2..d distinct
\* predictors, and in every row an interaction column holds the product of
\* its base columns' values.
C14_ExpanderResult ==
    ExpandDone /\ expand_degree >= 1 =>
        /\ IsPrefix(table_entry.cols, expanded.cols)
        /\ Range(expanded.cols) =
              Range(table_entry.cols)
                \cup {join(c) : c \in PredictorSets(expand_degree)}
        /\ Len(expanded.cols) =
              Len(table_entry.cols)
                + Cardinality({c \in PredictorSets(expand_degree) : Len(c) >= 2})
        /\ \A c \in PredictorSets(expand_degree), r \in 1..TableRows :
              Len(c) >= 2 =>
                 expanded.val[join(c)][r] =
                    times([i \in 1..Len(c) |-> table_entry.val[c[i]][r]])

\* C15: expansion with degree 1 returns the input: the same column names in
\* the same order and the same value in every cell, a missing value staying
\* missing.
C15_DegreeOneIsNoOp ==
    ExpandDone /\ expand_degree = 1 => expanded = table_entry

\* C16: the expander never changes the caller's table: during and after the
\* call it has the columns and the values it had when the call began, for
\* every degree.
C16_ExpanderLeavesInput ==
    tables["df"] = table_entry

C16_Witness ==
    /\ ExpandDone
    /\ expand_degree >= 2
    /\ expanded # table_entry

\* C17: in the expander's output the response column holds the input's
\* response values, and the response name is no constituent of a generated
\* name, whatever the column names are.
C17_ResponseUntouched ==
    ExpandDone =>
        /\ expanded.val[expand_response] = table_entry.val[expand_response]
        /\ LET names == name_combinations(table_entry.cols, expand_response,
                                          expand_degree)
           IN  \A i \in 1..Len(names) :
                  expand_response \notin Range(split(names[i]))

\* C18: with a degree above the number of predictors the expander raises
\* nothing: the orders above that number add no name, and the output is
\* that of the expansion whose degree is the number of predictors.
C18_DegreeAbovePredictors ==
    expand_pc # "idle" /\ expand_degree > Len(Predictors) =>
        /\ name_combinations(table_entry.cols, expand_response, expand_degree)
              = name_combinations(table_entry.cols, expand_response,
                                  Len(Predictors))
        /\ ExpandDone =>
              expanded =
                 assign_all(table_entry,
                            name_combinations(table_entry.cols, expand_response,
                                              Len(Predictors)))

C18_Witness ==
    /\ ExpandDone
    /\ expand_degree > Len(Predictors)
    /\ Len(expanded.cols) > Len(table_entry.cols)

\* C21: in every round that commits, no candidate scored in that round has
\* an adjusted R2 strictly above the committed candidate's.
C21_CommitIsRoundMaximum ==
    ValidArgs /\ pc = "while" /\ last_round = "commit" =>
        \A i \in 1..Len(scores_with_candidates) :
            ~(scores_with_candidates[i][1] > current_score
                /\ scores_with_candidates[i][1] # NaN)

\* C22: a term the search chose that is an interaction comes, in selected
\* and in the returned order, after all its base terms, and neither it nor
\* any of its base terms is in remaining.
C22_InteractionAfterBases ==
    /\ pc # "idle" =>
          \A i \in (Len(entry_force_in) + 1)..Len(Sel) :
              HasStar(Sel[i]) =>
                 /\ Sel[i] \notin remaining
                 /\ \A b \in Range(split(Sel[i])) :
                       /\ b \notin remaining
                       /\ \E j \in 1..(i - 1) : Sel[j] = b
    /\ Returned /\ result.kind = "model" => result.terms = Sel

C22_Witness ==
    /\ Returned
    /\ Len(committed_scores) = 1
    /\ Len(result.terms) = Len(entry_force_in) + 3
    /\ HasStar(result.terms[Len(result.terms)])

\* C23: during a search remaining is the dataset's column names less the
\* selected names and the response (so it is disjoint from selected and
\* never holds the response), and it never gains an element.
C23_RemainingIsComplement ==
    /\ [](pc # "idle" =>
            remaining = Range(df) \ (Range(Sel) \cup {Response}))
    /\ [][pc # "idle" => remaining' \subseteq remaining]_vars

C23_Witness ==
    /\ pc = "for"
    /\ last_round = "commit"
    /\ Len(Sel) > Len(entry_force_in)
    /\ remaining # {}

\* C24: scoring a candidate leaves selected, remaining and current_score
\* as they were; they change only in the commit of a round whose best score
\* is strictly above current_score.
C24_ScoringChangesNothing ==
    /\ [][pc = "for" /\ todo # {} =>
            /\ lists' = lists
            /\ remaining' = remaining
            /\ current_score' = current_score]_vars
    /\ [][/\ pc \in {"while", "for", "refit"}
           /\ \/ lists' # lists
              \/ remaining' # remaining
              \/ current_score' # current_score
           => /\ pc = "for" /\ todo = {}
              /\ current_score < best_new_score'
              /\ best_new_score' \notin {NaN}
              /\ last_round' = "commit"]_vars

C24_Witness ==
    /\ pc = "for"
    /\ \E i \in 1..Len(scores_with_candidates) :
          /\ HasStar(scores_with_candidates[i][2])
          /\ ~(Range(split(scores_with_candidates[i][2])) \subseteq Range(Sel))

\* C25 (as stated): the p of the degrees-of-freedom floor n - p - 1 < 1 is
\* the number of trial-model terms plus one, the intercept column counted:
\* a visit to a candidate ends the call exactly when n - (terms + 1) - 1 < 1.
C25_ParameterCountWithIntercept ==
    [][pc = "for" /\ todo # {} =>
          (pc' = "done" <=> data.n - (Len(design(candidate)) + 1) - 1 < 1)]_vars

\* C25 (amended): the p of the degrees-of-freedom floor n - p - 1 < 1 is
\* the number of trial-model terms, the intercept column not counted: a
\* visit to a candidate ends the call exactly when n - terms - 1 < 1.
C25_ParameterCountWithoutIntercept ==
    [][pc = "for" /\ todo # {} =>
          (pc' = "done" <=> data.n - Len(design(candidate)) - 1 < 1)]_vars

C25_Witness ==
    /\ pc = "for"
    /\ scores_with_candidates # <<>>
    /\ \E i \in 1..Len(scores_with_candidates) :
          data.n - Len(design(scores_with_candidates[i][2])) - 1 = 1

\* C26: once a commit has happened, the selected terms are the columns of
\* the trial model whose adjusted R2 is in current_score: current_score is
\* the score of the model now selected.
C26_ScoreOfSelectedModel ==
    pc # "idle" /\ committed_scores # <<>> =>
        /\ Range(Sel) \in DOMAIN fit
        /\ ~fit[Range(Sel)].singular
        /\ fit[Range(Sel)].r = current_score

C26_Witness ==
    /\ pc = "while"
    /\ last_round = "commit"
    /\ \E i \in (Len(entry_force_in) + 1)..Len(Sel) : HasStar(Sel[i])

\* every column but the response is in force_in
AllForced == Range(df) \ {Response} \subseteq Range(entry_force_in)

\* C27: when every non-response column is in force_in, no candidate is
\* evaluated and the returned model's terms are force_in in the caller's
\* order.
C27_AllForcedReturnsForceIn ==
    pc # "idle" /\ AllForced =>
        /\ pc \in {"while", "refit", "done"}
        /\ fit = <<>>
        /\ scores_with_candidates = <<>>
        /\ Returned =>
              /\ result.kind = "model"
              /\ result.terms = request.force_in

C27_Witness ==
    /\ Returned
    /\ AllForced
    /\ maxvars > Len(entry_force_in)

\* C28: the separator never collides with a column name: no name the
\* expander generates for a combination of two or more predictors is the
\* name of an original column.
C28_SeparatorNeverCollides ==
    expand_pc # "idle" =>
        \A c \in PredictorSets(expand_degree) :
            Len(c) >= 2 => join(c) \notin Range(table_entry.cols)

\* C29: when parameters are selected and gen_model, or the derivation of
\* the table and plots after it, raises an exception, the submit callback
\* lets none through: it returns the placeholder.
C29_CallbackShowsPlaceholder ==
    /\ prev.valid
    /\ prev.args.via = "gen_model"
    /\ prev.args.maxvars >= Len(prev.force_in)
    => shown \in {"table", "placeholder"}

\* C30: when force_in has no duplicates and holds only dataset columns,
\* selected has no duplicates and holds only columns of the frame in every
\* state of the search, and the design matrix of the returned model has
\* len(selected) + 1 columns.
C30_SelectedIsDuplicateFree ==
    /\ pc # "idle"
    /\ ValidArgs
    /\ Cardinality(Range(entry_force_in)) = Len(entry_force_in)
    /\ Range(entry_force_in) \subseteq Range(df)
    => /\ Cardinality(Range(Sel)) = Len(Sel)
       /\ Range(Sel) \subseteq Range(df)
       /\ Returned /\ result.kind = "model" =>
             Len(result.keys) = Len(Sel) + 1
====
